---- MODULE Spec2Model ----
(***************************************************************************)
(* Model of the S3-triggered image worker in src/index.mjs: the handler    *)
(* that decodes the object key, checks the processed flag in the object's  *)
(* metadata, classifies the extension, reads the object, converts HEIC to  *)
(* JPEG, resizes to width 1000 and overwrites the object in place.         *)
(*                                                                         *)
(* Strings of the program are sequences of one-character strings, so that  *)
(* decoding, parsing and lower-casing are computed character by character. *)
(* An image file is the byte sequence <<magic, width, height>>.            *)
(***************************************************************************)
EXTENDS Integers, Sequences, FiniteSets, TLC

(***************************************************************************)
(* Bounds                                                                  *)
(***************************************************************************)
\* number of invocations (duplicate deliveries of the trigger event)
NumInv == 2

(***************************************************************************)
(* Characters and strings                                                  *)
(***************************************************************************)
\* printable ASCII, code 32 at position 1 (code 96 is written "<grave>")
Ascii ==
  << " ", "!", "\"", "#", "$", "%", "&", "'", "(", ")", "*", "+", ",", "-", ".", "/",
     "0", "1", "2", "3", "4", "5", "6", "7", "8", "9", ":", ";", "<", "=", ">", "?",
     "@", "A", "B", "C", "D", "E", "F", "G", "H", "I", "J", "K", "L", "M", "N", "O",
     "P", "Q", "R", "S", "T", "U", "V", "W", "X", "Y", "Z", "[", "\\", "]", "^", "_",
     "<grave>", "a", "b", "c", "d", "e", "f", "g", "h", "i", "j", "k", "l", "m", "n", "o",
     "p", "q", "r", "s", "t", "u", "v", "w", "x", "y", "z", "{", "|", "}", "~" >>

\* stands for every ASCII character outside 32..126
ControlChar == "<ctl>"

FromCharCode(b) == IF b >= 32 /\ b <= 126 THEN Ascii[b - 31] ELSE ControlChar

\* the code of each printable character
CodeOf == [c \in {Ascii[n] : n \in 1..Len(Ascii)} |->
             31 + (CHOOSE n \in 1..Len(Ascii) : Ascii[n] = c)]

CharCode(c) == IF c \in DOMAIN CodeOf THEN CodeOf[c] ELSE 0

\* String.prototype.toLowerCase on ASCII
LowerChar(c) == LET n == CharCode(c)
                IN  IF n >= 65 /\ n <= 90 THEN FromCharCode(n + 32) ELSE c

toLowerCase(s) == [n \in 1..Len(s) |-> LowerChar(s[n])]

\* key.replace(/\+/g, " ")
replacePlus(s) == [n \in 1..Len(s) |-> IF s[n] = "+" THEN " " ELSE s[n]]

\* ext.replace with a string pattern: removes the first dot only
replaceFirstDot(s) ==
  IF \E n \in 1..Len(s) : s[n] = "."
  THEN LET k == CHOOSE n \in 1..Len(s) : s[n] = "." /\ \A m \in 1..(n-1) : s[m] # "."
       IN  SubSeq(s, 1, k - 1) \o SubSeq(s, k + 1, Len(s))
  ELSE s

IsHex(c) == \/ (CharCode(c) >= 48 /\ CharCode(c) <= 57)
            \/ (CharCode(c) >= 65 /\ CharCode(c) <= 70)
            \/ (CharCode(c) >= 97 /\ CharCode(c) <= 102)

HexVal(c) == IF CharCode(c) <= 57 THEN CharCode(c) - 48
             ELSE IF CharCode(c) <= 70 THEN CharCode(c) - 55
             ELSE CharCode(c) - 87

\* thrown by decodeURIComponent
URIError == "URIError"

(***************************************************************************)
(* decodeURIComponent: every "%" must be followed by two hex digits; an    *)
(* escape below 0x80 is the character with that code.  An escape of 0x80   *)
(* or above starts a UTF-8 sequence; the keys of this model hold no valid  *)
(* multi-byte sequence, so such an escape is malformed here.               *)
(* Result: [ok |-> TRUE, val |-> string] or [ok |-> FALSE, err |-> ...].   *)
(***************************************************************************)
RECURSIVE decodeFrom(_, _, _)
decodeFrom(s, k, acc) ==
  IF k > Len(s) THEN [ok |-> TRUE, val |-> acc]
  ELSE IF s[k] # "%" THEN decodeFrom(s, k + 1, Append(acc, s[k]))
  ELSE IF k + 2 > Len(s) THEN [ok |-> FALSE, err |-> URIError]
  ELSE IF ~(IsHex(s[k+1]) /\ IsHex(s[k+2])) THEN [ok |-> FALSE, err |-> URIError]
  ELSE LET b == 16 * HexVal(s[k+1]) + HexVal(s[k+2])
       IN  IF b >= 128 THEN [ok |-> FALSE, err |-> URIError]
           ELSE decodeFrom(s, k + 3, Append(acc, FromCharCode(b)))

decodeURIComponent(s) == decodeFrom(s, 1, <<>>)

(***************************************************************************)
(* path.posix.parse, as Node computes it: one backward scan over the       *)
(* string.  Indices are the 0-based indices of the JavaScript code; the    *)
(* character at JavaScript index i is p[i+1].                              *)
(***************************************************************************)
\* p.slice(a, b) for 0 <= a
slice(p, a, b) == IF b > a THEN SubSeq(p, a + 1, b) ELSE <<>>

\* the scan state before the loop
scanInit == [startDot |-> -1, startPart |-> 0, end |-> -1,
             matchedSlash |-> TRUE, preDotState |-> 0]

\* the body of the for loop from index i down to start
RECURSIVE parseScan(_, _, _, _)
parseScan(p, i, start, st) ==
  IF i < start THEN st
  ELSE IF p[i+1] = "/"
       THEN IF ~st.matchedSlash
            THEN [st EXCEPT !.startPart = i + 1]
            ELSE parseScan(p, i - 1, start, st)
       ELSE LET s1 == IF st.end = -1
                      THEN [st EXCEPT !.matchedSlash = FALSE, !.end = i + 1]
                      ELSE st
                s2 == IF p[i+1] = "."
                      THEN IF s1.startDot = -1
                           THEN [s1 EXCEPT !.startDot = i]
                           ELSE IF s1.preDotState # 1
                                THEN [s1 EXCEPT !.preDotState = 1]
                                ELSE s1
                      ELSE IF s1.startDot # -1
                           THEN [s1 EXCEPT !.preDotState = -1]
                           ELSE s1
            IN  parseScan(p, i - 1, start, s2)

posixParse(p) ==
  IF Len(p) = 0 THEN [root |-> <<>>, dir |-> <<>>, base |-> <<>>, ext |-> <<>>, name |-> <<>>]
  ELSE
  LET isAbsolute == p[1] = "/"
      start0 == IF isAbsolute THEN 1 ELSE 0
      st == parseScan(p, Len(p) - 1, start0, scanInit)
      start == IF st.startPart = 0 /\ isAbsolute THEN 1 ELSE st.startPart
      noExt == \/ st.startDot = -1
               \/ st.preDotState = 0
               \/ (st.preDotState = 1 /\ st.startDot = st.end - 1
                                      /\ st.startDot = st.startPart + 1)
  IN  [root |-> IF isAbsolute THEN <<"/">> ELSE <<>>,
       dir  |-> IF st.startPart > 0 THEN slice(p, 0, st.startPart - 1)
                ELSE IF isAbsolute THEN <<"/">> ELSE <<>>,
       base |-> IF st.end = -1 THEN <<>> ELSE slice(p, start, st.end),
       name |-> IF st.end = -1 THEN <<>>
                ELSE IF noExt THEN slice(p, start, st.end)
                ELSE slice(p, start, st.startDot),
       ext  |-> IF st.end = -1 \/ noExt THEN <<>> ELSE slice(p, st.startDot, st.end)]

(***************************************************************************)
(* String literals of src/index.mjs                                        *)
(***************************************************************************)
S_heic == <<"h","e","i","c">>

S_jpg == <<"j","p","g">>

S_jpeg == <<"j","p","e","g">>

S_true == <<"t","r","u","e">>

S_1000 == <<"1","0","0","0">>

S_image == <<"i","m","a","g","e","/">>

S_processedPrefix == <<"P","r","o","c","e","s","s","e","d"," ","a","n","d"," ","o","v","e","r","w","r","i","t","t","e","n"," ">>

S_slash == <<"/">>

S_formatOpen == <<" ","(","f","o","r","m","a","t",":"," ">>

S_formatClose == <<")">>

(***************************************************************************)
(* Pure steps of the handler                                               *)
(***************************************************************************)
\* variant: the broader list of lines 67-70 is the one in force
AllowList_broad == {S_heic, S_jpg, S_jpeg, <<"p","n","g">>}

\* the enabled image types (the broader list is commented out in the code)
AllowList == {S_heic}

\* const width = 1000
width == 1000

\* first byte of a HEIC container and of a JPEG file, as the model writes them
MagicHEIC == 1

MagicJPEG == 2

\* sharp's default limitInputPixels (0x3FFF * 0x3FFF)
PixelLimit == 268402689

\* the value of a JavaScript expression that is undefined, and a string value
Undefined == [type |-> "undefined", val |-> <<>>]

StringValue(s) == [type |-> "string", val |-> s]

\* meta[k] is neither undefined nor the empty string
Truthy(meta, k) == k \in DOMAIN meta /\ meta[k] # <<>>

\* meta['image-processed'] || meta['Image-Processed'] || ''
flagValue(meta) ==
  IF Truthy(meta, "image-processed") THEN meta["image-processed"]
  ELSE IF Truthy(meta, "Image-Processed") THEN meta["Image-Processed"]
  ELSE <<>>

\* const processed = (...).toString().toLowerCase() === 'true'
processed(meta) == toLowerCase(flagValue(meta)) = S_true

\* variant: the dot is left on the extension
extOf_withDot(srcKey) == posixParse(srcKey).ext

\* const ext = (parsed.ext || '').replace('.', '')
extOf(srcKey) == replaceFirstDot(posixParse(srcKey).ext)

\* variant: the extension is compared as it is written
imageTypeOf_caseSensitive(srcKey) == extOf(srcKey)

\* const imageType = ext.toLowerCase()
imageTypeOf(srcKey) == toLowerCase(extOf(srcKey))

\* !["heic"].includes(imageType)
supported(imageType) == imageType \in AllowList

\* variant: heic is published as "jpeg"
outputFiletypeOf_jpeg(imageType) ==
  IF imageType = S_heic THEN S_jpeg
  ELSE IF imageType = S_jpg THEN S_jpeg
  ELSE imageType

outputFiletypeOf(imageType) ==
  IF imageType = S_heic THEN S_jpg
  ELSE IF imageType = S_jpg THEN S_jpeg
  ELSE imageType

\* ContentType: `image/${outputFiletype}`
contentTypeOf(outputFiletype) == S_image \o outputFiletype

\* variant: the Metadata lacks the processed flag
putMetadata_noFlag(imageType, outputFiletype) ==
  ("processed-width" :> S_1000) @@
  ("original-ext" :> imageType) @@ ("output-format" :> outputFiletype)

\* variant: original-ext records the output format
putMetadata_extSwapped(imageType, outputFiletype) ==
  ("image-processed" :> S_true) @@ ("processed-width" :> S_1000) @@
  ("original-ext" :> outputFiletype) @@ ("output-format" :> outputFiletype)

\* the Metadata of the PutObjectCommand
putMetadata(imageType, outputFiletype) ==
  ("image-processed" :> S_true) @@ ("processed-width" :> S_1000) @@
  ("original-ext" :> imageType) @@ ("output-format" :> outputFiletype)

\* the string the handler returns after a publish
statusString(srcBucket, srcKey, outputFiletype) ==
  S_processedPrefix \o srcBucket \o S_slash \o srcKey \o
  S_formatOpen \o outputFiletype \o S_formatClose

(***************************************************************************)
(* bodyToBuffer.  A Body is [shape, chunks, failAt]: the shape of the      *)
(* source, the chunks it delivers and, when failAt = k > 0, a failure of   *)
(* the source when its k-th chunk is requested (k = Len(chunks) + 1: when  *)
(* the end of the stream is requested).                                    *)
(***************************************************************************)
RECURSIVE concat(_)
concat(chunks) == IF chunks = <<>> THEN <<>> ELSE Head(chunks) \o concat(Tail(chunks))

\* variant: a source that fails ends the loop, and what was collected is returned
RECURSIVE collectFrom_truncating(_, _, _)
collectFrom_truncating(Body, k, chunks) ==
  IF Body.failAt = k \/ k > Len(Body.chunks)
  THEN [ok |-> TRUE, err |-> "", val |-> concat(chunks)]
  ELSE collectFrom_truncating(Body, k + 1, Append(chunks, Body.chunks[k]))

\* the loops of lines 13-15 and 22-26: request chunk k, push it, go on
RECURSIVE collectFrom(_, _, _)
collectFrom(Body, k, chunks) ==
  IF Body.failAt = k THEN [ok |-> FALSE, err |-> "StreamError", val |-> <<>>]
  ELSE IF k > Len(Body.chunks) THEN [ok |-> TRUE, err |-> "", val |-> concat(chunks)]
  ELSE collectFrom(Body, k + 1, Append(chunks, Body.chunks[k]))

bodyToBuffer(Body) ==
  IF Body.shape = "readable" THEN collectFrom(Body, 1, <<>>)
  ELSE IF Body.shape = "webstream" THEN collectFrom(Body, 1, <<>>)
  ELSE IF Body.shape = "bytearray"
       THEN IF Body.failAt # 0 THEN [ok |-> FALSE, err |-> "StreamError", val |-> <<>>]
            ELSE [ok |-> TRUE, err |-> "", val |-> concat(Body.chunks)]
  ELSE [ok |-> FALSE, err |-> "UnsupportedSourceType", val |-> <<>>]

(***************************************************************************)
(* heicConvert({buffer, format: 'JPEG', quality: 1}) and                   *)
(* sharp(buffer).jpeg({quality: 100}).resize(width).toBuffer()             *)
(***************************************************************************)
isImage(buffer, magic) ==
  Len(buffer) = 3 /\ buffer[1] = magic /\ buffer[2] >= 1 /\ buffer[3] >= 1

\* variant: a JPEG payload is accepted and passed on
heicConvert_lenient(buffer) ==
  IF isImage(buffer, MagicHEIC) \/ isImage(buffer, MagicJPEG)
  THEN [ok |-> TRUE, err |-> "", val |-> <<MagicJPEG, buffer[2], buffer[3]>>]
  ELSE [ok |-> FALSE, err |-> "ConversionError", val |-> <<>>]

heicConvert(buffer) ==
  IF isImage(buffer, MagicHEIC)
  THEN [ok |-> TRUE, err |-> "", val |-> <<MagicJPEG, buffer[2], buffer[3]>>]
  ELSE [ok |-> FALSE, err |-> "ConversionError", val |-> <<>>]

\* h * w1 / w0 rounded to the nearest integer, at least 1
scaled(h, w0, w1) ==
  LET r == (2 * h * w1 + w0) \div (2 * w0) IN IF r < 1 THEN 1 ELSE r

\* variant: an image narrower than w is not enlarged
sharpResize_withoutEnlargement(buffer, w) ==
  IF isImage(buffer, MagicJPEG) /\ buffer[2] * buffer[3] <= PixelLimit
  THEN IF buffer[2] < w
       THEN [ok |-> TRUE, err |-> "", val |-> <<MagicJPEG, buffer[2], buffer[3]>>]
       ELSE [ok |-> TRUE, err |-> "", val |-> <<MagicJPEG, w, scaled(buffer[3], buffer[2], w)>>]
  ELSE [ok |-> FALSE, err |-> "DecodeError", val |-> <<>>]

sharpResize(buffer, w) ==
  IF isImage(buffer, MagicJPEG) /\ buffer[2] * buffer[3] <= PixelLimit
  THEN [ok |-> TRUE, err |-> "", val |-> <<MagicJPEG, w, scaled(buffer[3], buffer[2], w)>>]
  ELSE [ok |-> FALSE, err |-> "DecodeError", val |-> <<>>]


(***************************************************************************)
(* Inputs of the model                                                     *)
(***************************************************************************)
\* bound on the number of chunks a stream delivers
MaxChunks == 2

Invocations == 1..NumInv

BucketName == <<"b">>

\* raw (encoded) object keys of the trigger event
RawKeys ==
  { <<"p","h","o","t","o","+","n","a","m","e",".","H","E","I","C">>,
    <<"d","/","x",".","H","e","i","c">>,
    <<"a","%","2","E","p","n","g">>,
    <<"d","i","a","g","r","a","m",".","p","n","g">>,
    <<"n","o","e","x","t">>,
    <<".","h","e","i","c">>,
    <<"a",".","h","e","i","c",".","p","n","g">>,
    <<"%">>,
    <<"%","z","z">> }

\* object payloads: a HEIC image, a JPEG image (no HEIC container), and a
\* HEIC image above sharp's pixel limit
Payloads == { <<MagicHEIC, 2000, 1500>>, <<MagicJPEG, 800, 600>>,
              <<MagicHEIC, 20000, 20000>> }

\* user metadata the object carries before any invocation
MetaMaps ==
  { <<>>,
    ("image-processed" :> S_true),
    ("image-processed" :> <<"T","R","U","E">>),
    ("Image-Processed" :> <<"T","r","u","e">>),
    ("image-processed" :> <<"f","a","l","s","e">>) @@ ("Image-Processed" :> S_true),
    ("image-processed" :> S_true) @@ ("Image-Processed" :> <<"f","a","l","s","e">>),
    ("image-processed" :> <<>>) @@ ("Image-Processed" :> S_true) }

\* an object nobody's event names
OtherKey == <<"o","t","h","e","r",".","h","e","i","c">>

OtherObject == [Body |-> <<MagicHEIC, 640, 480>>, ContentType |-> S_image \o S_heic,
                Metadata |-> <<>>]

\* p delivered in n chunks: n - 1 chunks of one byte, then the rest
Cut(p, n) ==
  IF Len(p) <= n THEN [k \in 1..Len(p) |-> <<p[k]>>]
  ELSE [k \in 1..n |-> IF k < n THEN <<p[k]>> ELSE SubSeq(p, n, Len(p))]

\* the Body values a GetObject of payload p may return: a stream of up to
\* MaxChunks chunks that ends normally or fails at its last chunk, a
\* byte-array accessor that answers or fails, or none of the known shapes
Bodies(p) ==
  { [shape |-> sh, chunks |-> Cut(p, n), failAt |-> f * Len(Cut(p, n))] :
      sh \in {"readable", "webstream"}, n \in 1..MaxChunks, f \in 0..1 }
  \cup { [shape |-> "bytearray", chunks |-> <<p>>, failAt |-> f] : f \in 0..1 }
  \cup { [shape |-> "none", chunks |-> <<>>, failAt |-> 0] }

(***************************************************************************)
(* State                                                                   *)
(***************************************************************************)
VARIABLES
  event,        \* the trigger event: its Records, each [bucket, key]
  store,        \* the bucket: <<bucket, key>> -> [Body, ContentType, Metadata]
  inv,          \* per invocation: position and local variables of handler
  orig,         \* the store before any invocation (history)
  writes,       \* the invocations whose PutObject was applied, in order (history)
  holder,       \* the invocation whose write the target object holds, 0 for none (history)
  probe         \* a pure step taken alone: its input and, once applied, its result

vars == <<event, store, inv, orig, writes, holder, probe>>

\* the handler's specifications take no pure step alone
NoProbe == <<>>

\* inv[i].Body holds the bytes the Body returned by GetObject streams; how
\* the stream behaves (its shape, its chunks, a failure) shows when it is read
NoBody == <<>>

IdleInv ==
  [pc |-> "idle", srcBucket |-> <<>>, srcKey |-> <<>>, imageType |-> <<>>,
   Body |-> NoBody, contentBuffer |-> <<>>, workingBuffer |-> <<>>,
   resizedBuffer |-> <<>>, outputFiletype |-> <<>>,
   outcome |-> "pending", ret |-> Undefined, err |-> "",
   calls |-> <<>>, resps |-> <<>>]

\* the commands sent to S3
HeadObjectCommand(b, k) == [cmd |-> "HeadObject", Bucket |-> b, Key |-> k, input |-> <<>>]

GetObjectCommand(b, k) == [cmd |-> "GetObject", Bucket |-> b, Key |-> k, input |-> <<>>]

PutObjectCommand(b, k, body, ct, md) ==
  [cmd |-> "PutObject", Bucket |-> b, Key |-> k,
   input |-> [Body |-> body, ContentType |-> ct, Metadata |-> md]]

\* what the environment answered: a response of S3, or what the Body stream
\* delivered when it was read
Response(ok, val, err) == [ok |-> ok, val |-> val, err |-> err]

\* the object the first record of event ev names, when its key decodes
TargetKey(ev) == decodeURIComponent(replacePlus(ev[1].key))

\* the bucket when the object the event names is obj
InitStoreOf(ev, obj) ==
  LET other == (<<BucketName, OtherKey>> :> OtherObject)
      d == TargetKey(ev)
  IN  IF d.ok THEN (<<ev[1].bucket, d.val>> :> obj) @@ other ELSE other

\* the bucket when the object the event names was uploaded with this
\* payload and this metadata
InitStore(ev, payload, meta) ==
  InitStoreOf(ev, [Body |-> payload, ContentType |-> S_image \o S_heic, Metadata |-> meta])

\* the object of a supported key as a run before all those of the model
\* published it
PublishedBefore ==
  [Body |-> sharpResize(heicConvert(<<MagicHEIC, 2000, 1500>>).val, width).val,
   ContentType |-> contentTypeOf(outputFiletypeOf(S_heic)),
   Metadata |-> putMetadata(S_heic, outputFiletypeOf(S_heic))]

Init ==
  /\ \E k \in RawKeys : event = << [bucket |-> BucketName, key |-> k] >>
  /\ \/ \E p \in Payloads, m \in MetaMaps : store = InitStore(event, p, m)
     \/ /\ TargetKey(event).ok
        /\ supported(imageTypeOf(TargetKey(event).val))
        /\ store = InitStoreOf(event, PublishedBefore)
  /\ inv = [i \in Invocations |-> IdleInv]
  /\ orig = store
  /\ writes = <<>>
  /\ holder = 0
  /\ probe = NoProbe

(***************************************************************************)
(* The handler, one action per await                                       *)
(***************************************************************************)
\* return v
Return(s, v) == [s EXCEPT !.pc = "done", !.outcome = "returned", !.ret = v]

\* variant: the catch block logs the error and does not rethrow it
Raise_swallowed(s, e) == Return([s EXCEPT !.err = e], Undefined)

\* throw (or rethrow at line 127): the invocation fails
Raise(s, e) == [s EXCEPT !.pc = "done", !.outcome = "raised", !.err = e]

\* variant: the last record of the event is the one processed
Start_lastRecord(i) ==
  /\ inv[i].pc = "idle"
  /\ \A j \in Invocations : j < i => inv[j].pc # "idle"
  /\ LET d == decodeURIComponent(replacePlus(event[Len(event)].key))
         b == event[Len(event)].bucket
     IN  inv' = [inv EXCEPT ![i] =
                   IF d.ok
                   THEN [@ EXCEPT !.pc = "head", !.srcBucket = b, !.srcKey = d.val,
                                  !.calls = <<HeadObjectCommand(b, d.val)>>]
                   ELSE Raise([@ EXCEPT !.srcBucket = b], d.err)]
  /\ UNCHANGED <<event, store, orig, writes, holder, probe>>

\* lines 40-46: read the first record, decode the key, send HeadObject
Start(i) ==
  /\ inv[i].pc = "idle"
  /\ \A j \in Invocations : j < i => inv[j].pc # "idle"
  /\ LET d == decodeURIComponent(replacePlus(event[1].key))
         b == event[1].bucket
     IN  inv' = [inv EXCEPT ![i] =
                   IF d.ok
                   THEN [@ EXCEPT !.pc = "head", !.srcBucket = b, !.srcKey = d.val,
                                  !.calls = <<HeadObjectCommand(b, d.val)>>]
                   ELSE Raise([@ EXCEPT !.srcBucket = b], d.err)]
  /\ UNCHANGED <<event, store, orig, writes, holder, probe>>

\* lines 58-80, entered when the gate did not return: parse the key,
\* classify the extension, send GetObject
Classify(s) ==
  LET imageType == imageTypeOf(s.srcKey)
  IN  IF ~supported(imageType)
      THEN Return([s EXCEPT !.imageType = imageType], Undefined)
      ELSE [s EXCEPT !.pc = "get", !.imageType = imageType,
                     !.calls = Append(@, GetObjectCommand(s.srcBucket, s.srcKey))]

\* lines 47-52: the gate on the metadata HeadObject returned
Gate(s, meta) == IF processed(meta) THEN Return(s, Undefined) ELSE Classify(s)

\* variant: a failed HeadObject ends the invocation as a skip
GateCatch_skips(s) == Return(s, Undefined)

\* variant: a failed HeadObject fails the invocation
GateCatch_failClosed(s) == Raise(s, "HeadObjectError")

\* lines 53-56: HeadObject failed; warn and go on
GateCatch(s) == Classify(s)

\* HeadObject answers: with the object's metadata, or with an error
HeadObject(i) ==
  /\ inv[i].pc = "head"
  /\ LET loc == <<inv[i].srcBucket, inv[i].srcKey>>
     IN  \/ /\ loc \in DOMAIN store
            /\ inv' = [inv EXCEPT ![i] =
                 Gate([@ EXCEPT !.resps = Append(@, Response(TRUE, store[loc].Metadata, ""))],
                      store[loc].Metadata)]
         \/ inv' = [inv EXCEPT ![i] =
                 GateCatch([@ EXCEPT !.resps = Append(@, Response(FALSE, <<>>, "HeadObjectError"))])]
  /\ UNCHANGED <<event, store, orig, writes, holder, probe>>

\* GetObject answers: with a Body over the object's bytes as they are now,
\* or with an error
GetObject(i) ==
  /\ inv[i].pc = "get"
  /\ LET loc == <<inv[i].srcBucket, inv[i].srcKey>>
     IN  \/ /\ loc \in DOMAIN store
            /\ inv' = [inv EXCEPT ![i] =
                   [@ EXCEPT !.pc = "collect", !.Body = store[loc].Body,
                             !.resps = Append(@, Response(TRUE, <<>>, ""))]]
         \/ inv' = [inv EXCEPT ![i] =
                 Raise([@ EXCEPT !.resps = Append(@, Response(FALSE, <<>>, "GetObjectError"))], "GetObjectError")]
  /\ UNCHANGED <<event, store, orig, writes, holder, probe>>

\* line 83: await bodyToBuffer(Body), for every Body the SDK may have
\* returned over these bytes; the stream is consumed
Collect(i) ==
  /\ inv[i].pc = "collect"
  /\ \E B \in Bodies(inv[i].Body) :
       LET r == bodyToBuffer(B)
       IN  inv' = [inv EXCEPT ![i] =
                     LET s == [@ EXCEPT !.Body = NoBody,
                                        !.resps = Append(@, Response(r.ok, r.val, r.err))]
                     IN  IF r.ok THEN [s EXCEPT !.pc = "convert", !.contentBuffer = r.val]
                         ELSE Raise(s, r.err)]
  /\ UNCHANGED <<event, store, orig, writes, holder, probe>>

\* variant: when the conversion fails the original buffer is used instead
Convert_fallback(i) ==
  /\ inv[i].pc = "convert"
  /\ LET r == heicConvert(inv[i].contentBuffer)
     IN  inv' = [inv EXCEPT ![i] =
                   [@ EXCEPT !.pc = "resize",
                             !.workingBuffer = IF r.ok THEN r.val ELSE inv[i].contentBuffer]]
  /\ UNCHANGED <<event, store, orig, writes, holder, probe>>

\* lines 89-98: await heicConvert for a heic source, the buffer itself otherwise
Convert(i) ==
  /\ inv[i].pc = "convert"
  /\ LET r == IF inv[i].imageType = S_heic THEN heicConvert(inv[i].contentBuffer)
              ELSE [ok |-> TRUE, err |-> "", val |-> inv[i].contentBuffer]
     IN  inv' = [inv EXCEPT ![i] =
                   IF r.ok THEN [@ EXCEPT !.pc = "resize", !.workingBuffer = r.val]
                   ELSE Raise(@, r.err)]
  /\ UNCHANGED <<event, store, orig, writes, holder, probe>>

\* lines 100-121: await the resize, then send PutObject
Resize(i) ==
  /\ inv[i].pc = "resize"
  /\ LET r == sharpResize(inv[i].workingBuffer, width)
         out == outputFiletypeOf(inv[i].imageType)
     IN  inv' = [inv EXCEPT ![i] =
                   IF r.ok
                   THEN [@ EXCEPT !.pc = "put", !.resizedBuffer = r.val,
                                  !.outputFiletype = out,
                                  !.calls = Append(@,
                                     PutObjectCommand(inv[i].srcBucket, inv[i].srcKey, r.val,
                                                      contentTypeOf(out),
                                                      putMetadata(inv[i].imageType, out)))]
                   ELSE Raise(@, r.err)]
  /\ UNCHANGED <<event, store, orig, writes, holder, probe>>

\* the object a PutObjectCommand stores
Stored(c) == [Body |-> c.input.Body, ContentType |-> c.input.ContentType,
              Metadata |-> c.input.Metadata]

\* variant: a write to an object that was already overwritten is dropped
PutObject_firstWins(i) ==
  /\ inv[i].pc = "put"
  /\ LET c == inv[i].calls[Len(inv[i].calls)]
         loc == <<c.Bucket, c.Key>>
     IN  /\ store' = IF writes = <<>>
                     THEN [l \in DOMAIN store \cup {loc} |-> IF l = loc THEN Stored(c) ELSE store[l]]
                     ELSE store
         /\ holder' = IF writes = <<>> THEN i ELSE holder
         /\ writes' = Append(writes, i)
         /\ inv' = [inv EXCEPT ![i] =
              Return([@ EXCEPT !.resps = Append(@, Response(TRUE, <<>>, ""))],
                     StringValue(statusString(inv[i].srcBucket, inv[i].srcKey,
                                              inv[i].outputFiletype)))]
  /\ UNCHANGED <<event, orig, probe>>

\* variant: a write that fails has already replaced the payload, and not the
\* metadata
PutObject_torn(i) ==
  /\ inv[i].pc = "put"
  /\ LET c == inv[i].calls[Len(inv[i].calls)]
         loc == <<c.Bucket, c.Key>>
     IN  \/ /\ store' = [l \in DOMAIN store \cup {loc} |-> IF l = loc THEN Stored(c) ELSE store[l]]
            /\ writes' = Append(writes, i)
            /\ holder' = i
            /\ inv' = [inv EXCEPT ![i] =
                 Return([@ EXCEPT !.resps = Append(@, Response(TRUE, <<>>, ""))],
                        StringValue(statusString(inv[i].srcBucket, inv[i].srcKey,
                                                 inv[i].outputFiletype)))]
         \/ /\ inv' = [inv EXCEPT ![i] =
                 Raise([@ EXCEPT !.resps = Append(@, Response(FALSE, <<>>, "PutObjectError"))], "PutObjectError")]
            /\ store' = [store EXCEPT ![loc].Body = c.input.Body]
            /\ UNCHANGED <<writes, holder>>
  /\ UNCHANGED <<event, orig, probe>>

\* variant: a failed write is sent once more
PutObject_retry(i) ==
  /\ inv[i].pc = "put"
  /\ LET c == inv[i].calls[Len(inv[i].calls)]
         loc == <<c.Bucket, c.Key>>
     IN  \/ /\ store' = [l \in DOMAIN store \cup {loc} |-> IF l = loc THEN Stored(c) ELSE store[l]]
            /\ writes' = Append(writes, i)
            /\ holder' = i
            /\ inv' = [inv EXCEPT ![i] =
                 Return([@ EXCEPT !.resps = Append(@, Response(TRUE, <<>>, ""))],
                        StringValue(statusString(inv[i].srcBucket, inv[i].srcKey,
                                                 inv[i].outputFiletype)))]
         \/ /\ inv' = [inv EXCEPT ![i] =
                 LET s == [@ EXCEPT !.resps = Append(@, Response(FALSE, <<>>, "PutObjectError"))]
                 IN  IF Len(s.calls) < 4 THEN [s EXCEPT !.calls = Append(@, c)]
                     ELSE Raise(s, "PutObjectError")]
            /\ UNCHANGED <<store, writes, holder>>
  /\ UNCHANGED <<event, orig, probe>>

\* PutObject answers: the object is replaced, or the write failed
PutObject(i) ==
  /\ inv[i].pc = "put"
  /\ LET c == inv[i].calls[Len(inv[i].calls)]
         loc == <<c.Bucket, c.Key>>
     IN  \/ /\ store' = [l \in DOMAIN store \cup {loc} |-> IF l = loc THEN Stored(c) ELSE store[l]]
            /\ writes' = Append(writes, i)
            /\ holder' = i
            /\ inv' = [inv EXCEPT ![i] =
                 Return([@ EXCEPT !.resps = Append(@, Response(TRUE, <<>>, ""))],
                        StringValue(statusString(inv[i].srcBucket, inv[i].srcKey,
                                                 inv[i].outputFiletype)))]
         \/ /\ inv' = [inv EXCEPT ![i] =
                 Raise([@ EXCEPT !.resps = Append(@, Response(FALSE, <<>>, "PutObjectError"))], "PutObjectError")]
            /\ UNCHANGED <<store, writes, holder>>
  /\ UNCHANGED <<event, orig, probe>>

Next ==
  \E i \in Invocations :
    \/ Start(i)
    \/ HeadObject(i)
    \/ GetObject(i)
    \/ Collect(i)
    \/ Convert(i)
    \/ Resize(i)
    \/ PutObject(i)

Spec == Init /\ [][Next]_vars


(***************************************************************************)
(* bodyToBuffer alone: a Body of any shape is handed to it once            *)
(***************************************************************************)
\* bound on the bytes of one chunk
MaxChunkLen == 2

\* the byte values of the chunks
ChunkBytes == {7, 9}

RECURSIVE SeqsUpTo(_, _)
\* the sequences over S of length at most n
SeqsUpTo(S, n) ==
  IF n = 0 THEN {<<>>}
  ELSE LET shorter == SeqsUpTo(S, n - 1)
       IN  shorter \cup {Append(q, x) : q \in {r \in shorter : Len(r) = n - 1}, x \in S}

\* every Body: a stream (lines 11 and 19) of up to MaxChunks chunks, ending
\* normally (failAt = 0) or failing when its failAt-th chunk (or, past the
\* last, its end) is requested; a transformToByteArray (line 30) that answers
\* with one array or fails; an object with none of the three methods; null
AllBodies ==
  { [shape |-> sh, chunks |-> c, failAt |-> f] :
      sh \in {"readable", "webstream"},
      c \in SeqsUpTo(SeqsUpTo(ChunkBytes, MaxChunkLen), MaxChunks),
      f \in 0..(MaxChunks + 1) }
  \cup { [shape |-> "bytearray", chunks |-> <<p>>, failAt |-> f] :
           p \in SeqsUpTo(ChunkBytes, MaxChunkLen), f \in 0..1 }
  \cup { [shape |-> sh, chunks |-> <<>>, failAt |-> 0] : sh \in {"none", "null"} }

\* the world of a pure step taken alone: no event, no object, no invocation
Quiet ==
  /\ event = <<>>
  /\ store = <<>>
  /\ inv = [i \in Invocations |-> IdleInv]
  /\ orig = store
  /\ writes = <<>>
  /\ holder = 0

InitBody ==
  /\ Quiet
  /\ \E B \in {b \in AllBodies : b.failAt <= Len(b.chunks) + 1} :
       probe = [Body |-> B, done |-> FALSE, result |-> <<>>]

\* await bodyToBuffer(Body)
CallBodyToBuffer ==
  /\ probe # NoProbe
  /\ ~probe.done
  /\ probe' = [probe EXCEPT !.done = TRUE, !.result = bodyToBuffer(probe.Body)]
  /\ UNCHANGED <<event, store, inv, orig, writes, holder>>

NextBody == CallBodyToBuffer

SpecBody == InitBody /\ [][NextBody]_vars

(***************************************************************************)
(* The handler on events of several records                                *)
(***************************************************************************)
\* bound on the records of one event
MaxRecords == 2

\* the first record: a supported key, an unsupported one, one that does not decode
FirstKeys ==
  { <<"p","h","o","t","o","+","n","a","m","e",".","H","E","I","C">>,
    <<"d","i","a","g","r","a","m",".","p","n","g">>,
    <<"%">> }

\* the later records name other objects: one the bucket holds, and the
\* first record's key in another bucket
LaterRecords ==
  { [bucket |-> BucketName, key |-> OtherKey],
    [bucket |-> <<"c">>, key |-> <<"p","h","o","t","o","+","n","a","m","e",".","H","E","I","C">>] }

InitRecords ==
  /\ \E k \in FirstKeys, rest \in SeqsUpTo(LaterRecords, MaxRecords - 1) :
       event = << [bucket |-> BucketName, key |-> k] >> \o rest
  /\ \E m \in {<<>>, ("image-processed" :> S_true)} :
       store = InitStore(event, <<MagicHEIC, 2000, 1500>>, m)
  /\ inv = [i \in Invocations |-> IdleInv]
  /\ orig = store
  /\ writes = <<>>
  /\ holder = 0
  /\ probe = NoProbe

SpecRecords == InitRecords /\ [][Next]_vars

(***************************************************************************)
(* The key resolution of lines 60-64 alone, on every decoded key over a    *)
(* small alphabet                                                          *)
(***************************************************************************)
\* bound on the length of a decoded key
MaxKeyLen == 5

\* a letter, the dot and the slash
KeyChars == {"a", ".", "/"}

\* an object key is not empty
DecodedKeys == SeqsUpTo(KeyChars, MaxKeyLen) \ {<<>>}

InitKey ==
  /\ Quiet
  /\ \E k \in DecodedKeys :
       probe = [srcKey |-> k, done |-> FALSE, dir |-> <<>>, baseNameNoExt |-> <<>>,
                ext |-> <<>>, imageType |-> <<>>]

\* lines 60-64: parsed, dir, baseNameNoExt, ext, imageType
ResolveKey ==
  /\ probe # NoProbe
  /\ ~probe.done
  /\ LET parsed == posixParse(probe.srcKey)
     IN  probe' = [probe EXCEPT !.done = TRUE, !.dir = parsed.dir,
                                !.baseNameNoExt = parsed.name,
                                !.ext = extOf(probe.srcKey),
                                !.imageType = imageTypeOf(probe.srcKey)]
  /\ UNCHANGED <<event, store, inv, orig, writes, holder>>

NextKey == ResolveKey

SpecKey == InitKey /\ [][NextKey]_vars

(***************************************************************************)
(* One invocation alone, on source images of many sizes                    *)
(***************************************************************************)
\* bound on the small sizes, on the distance of a width from the target
\* width, and on the multiples of the target width
MaxSmall == 3

SourceWidths ==
  (1..MaxSmall) \cup ((width - MaxSmall)..(width + MaxSmall))
    \cup {k * width : k \in 2..MaxSmall}

SourceHeights == (1..MaxSmall) \cup {750, 1500}

SizeKey == <<"x",".","h","e","i","c">>

InitSizes ==
  /\ event = << [bucket |-> BucketName, key |-> SizeKey] >>
  /\ \E w \in SourceWidths, h \in SourceHeights :
       store = InitStore(event, <<MagicHEIC, w, h>>, <<>>)
  /\ inv = [i \in Invocations |-> IdleInv]
  /\ orig = store
  /\ writes = <<>>
  /\ holder = 0
  /\ probe = NoProbe

\* the handler is invoked once
NextOnce ==
  \/ Start(1)
  \/ HeadObject(1)
  \/ GetObject(1)
  \/ Collect(1)
  \/ Convert(1)
  \/ Resize(1)
  \/ PutObject(1)

SpecSizes == InitSizes /\ [][NextOnce]_vars

(***************************************************************************)
(* One invocation alone, on keys of many forms                             *)
(***************************************************************************)
\* bound on the pieces a raw key is made of
MaxPieces == 3

\* the pieces: a letter, the dot, the slash, the extension in two cases,
\* and an encoded dot
KeyPieces ==
  { <<"a">>, <<".">>, <<"/">>, <<"h","e","i","c">>, <<"H","e","I","C">>, <<"%","2","E">> }

\* raw keys the pieces do not reach
LongKeys ==
  { <<"a",".","b",".","H","E","I","C">>,
    <<"d","i","r","/","x",".","h","e","i","c">>,
    <<"d","i","r","/",".","h","e","i","c">>,
    <<"a",".","h","e","i","c","/","b">>,
    <<"a",".","h","e","i","c",".","p","n","g">>,
    <<"a",".","h","e","i","c","/">>,
    <<"a","+","b",".","h","e","i","c">>,
    <<"a",".","h","e","i","c","%","2","F","b">> }

ClassKeys ==
  {concat(q) : q \in SeqsUpTo(KeyPieces, MaxPieces) \ {<<>>}} \cup LongKeys

InitClass ==
  /\ \E k \in ClassKeys : event = << [bucket |-> BucketName, key |-> k] >>
  /\ \E m \in {<<>>, ("image-processed" :> S_true)} :
       store = InitStore(event, <<MagicHEIC, 2000, 1500>>, m)
  /\ inv = [i \in Invocations |-> IdleInv]
  /\ orig = store
  /\ writes = <<>>
  /\ holder = 0
  /\ probe = NoProbe

SpecClass == InitClass /\ [][NextOnce]_vars



(***************************************************************************)
(* Vocabulary of the properties                                            *)
(***************************************************************************)
Range(f) == {f[n] : n \in DOMAIN f}

Min(a, b) == IF a <= b THEN a ELSE b

\* invocation i has sent command cmd
Issued(i, cmd) == \E n \in 1..Len(inv[i].calls) : inv[i].calls[n].cmd = cmd

\* HeadObject has answered invocation i, and what it answered
HeadAnswered(i) == Len(inv[i].resps) >= 1

HeadResp(i) == inv[i].resps[1]

\* what the environment answered invocation i after the metadata fetch
AfterHead(i) == Tail(inv[i].resps)

\* the PutObjectCommand invocation i sent
PutCall(i) == inv[i].calls[CHOOSE n \in 1..Len(inv[i].calls) : inv[i].calls[n].cmd = "PutObject"]

\* the object the event names
Target == <<event[1].bucket, TargetKey(event).val>>

FlagKeys == {"image-processed", "Image-Processed"}

\* the metadata holds the processed flag, under either key, with a value
\* that is "true" up to case
FlagPresent(meta) ==
  \E k \in FlagKeys : k \in DOMAIN meta /\ toLowerCase(meta[k]) = <<"t","r","u","e">>

PublishedMetadata ==
  ("image-processed" :> <<"t","r","u","e">>) @@ ("processed-width" :> <<"1","0","0","0">>) @@
  ("original-ext" :> <<"h","e","i","c">>) @@ ("output-format" :> <<"j","p","g">>)

(***************************************************************************)
(* C1: whenever the metadata fetch succeeds and the metadata holds the     *)
(* processed flag under either key variant with a value equal to "true"    *)
(* up to case, the invocation returns without sending GetObject or         *)
(* PutObject.  The code reads the second variant only when the first is    *)
(* absent or empty, so this fails for {image-processed: "false",           *)
(* Image-Processed: "true"}.                                               *)
(***************************************************************************)
C1_FlaggedObjectIsSkipped ==
  \A i \in Invocations :
    (HeadAnswered(i) /\ HeadResp(i).ok /\ FlagPresent(HeadResp(i).val))
      => /\ inv[i].pc = "done"
         /\ inv[i].outcome = "returned"
         /\ ~Issued(i, "GetObject")
         /\ ~Issued(i, "PutObject")

(***************************************************************************)
(* C2: a failed metadata fetch does not fail the invocation, and a run     *)
(* whose fetch failed does what a run whose fetch returned empty metadata  *)
(* does: whenever the environment answered both runs alike after the       *)
(* fetch, they sent the same commands and ended with the same outcome.     *)
(***************************************************************************)
\* the environment answered the two runs differently at some common step
Diverge(a, b) == \E n \in 1..Min(Len(a), Len(b)) : a[n] # b[n]

C2_FailOpen ==
  /\ \A i \in Invocations : inv[i].err # "HeadObjectError"
  /\ \A i, j \in Invocations :
       ( /\ inv[i].pc = "done" /\ inv[j].pc = "done"
         /\ HeadAnswered(i) /\ ~HeadResp(i).ok
         /\ HeadAnswered(j) /\ HeadResp(j).ok /\ DOMAIN HeadResp(j).val = {}
         /\ ~Diverge(AfterHead(i), AfterHead(j)) )
       => /\ inv[i].calls = inv[j].calls
          /\ AfterHead(i) = AfterHead(j)
          /\ inv[i].outcome = inv[j].outcome
          /\ inv[i].ret = inv[j].ret
          /\ inv[i].err = inv[j].err

\* both runs went through the whole pipeline and published
C2_Witness ==
  \E i, j \in Invocations :
    /\ inv[i].pc = "done" /\ inv[j].pc = "done"
    /\ HeadAnswered(i) /\ ~HeadResp(i).ok
    /\ HeadAnswered(j) /\ HeadResp(j).ok /\ DOMAIN HeadResp(j).val = {}
    /\ ~Diverge(AfterHead(i), AfterHead(j))
    /\ inv[i].ret.type = "string"

(***************************************************************************)
(* C3: once a run has published, a run whose metadata fetch succeeds       *)
(* afterwards sees the flag and skips: it returns at the gate having sent  *)
(* HeadObject only, and the store is left as the first run wrote it.       *)
(***************************************************************************)
C3_SecondRunSkips ==
  [][ \A j \in Invocations :
        ( /\ inv[j].pc = "head" /\ inv'[j].pc # "head"
          /\ inv'[j].resps[1].ok
          /\ writes # <<>> )
        => /\ inv'[j].pc = "done"
           /\ inv'[j].outcome = "returned"
           /\ inv'[j].ret = Undefined
           /\ Len(inv'[j].calls) = 1
           /\ inv'[j].calls[1].cmd = "HeadObject"
           /\ store' = store ]_vars

\* a run has skipped on the metadata another run published
C3_Witness ==
  \E i, j \in Invocations :
    /\ i # j
    /\ writes = <<i>>
    /\ inv[j].pc = "done" /\ inv[j].outcome = "returned"
    /\ HeadAnswered(j) /\ HeadResp(j).ok
    /\ HeadResp(j).val = PublishedMetadata
    /\ store[Target].Body = inv[i].resizedBuffer

(***************************************************************************)
(* C4: a run that fails in the object read, the stream collection, the     *)
(* conversion or the resize ends raised and sends no PutObject; a          *)
(* PutObject is sent only after all four have succeeded; and as long as no *)
(* write was applied the store is the original store.                      *)
(***************************************************************************)
PreWriteErrors ==
  {"GetObjectError", "StreamError", "UnsupportedSourceType", "ConversionError", "DecodeError"}

C4_FailedRunWritesNothing ==
  /\ \A i \in Invocations :
       (inv[i].outcome = "raised" /\ inv[i].err \in PreWriteErrors)
         => ~Issued(i, "PutObject") /\ i \notin Range(writes)
  /\ \A i \in Invocations :
       (\E n \in 2..Min(3, Len(inv[i].resps)) : ~inv[i].resps[n].ok)
         => /\ inv[i].pc = "done" /\ inv[i].outcome = "raised"
            /\ inv[i].err \in {"GetObjectError", "StreamError", "UnsupportedSourceType"}
  /\ \A i \in Invocations :
       (inv[i].pc = "done" /\ Len(inv[i].resps) = 3 /\ inv[i].resps[3].ok)
         => /\ inv[i].outcome = "raised"
            /\ inv[i].err \in {"ConversionError", "DecodeError"}
            /\ ~Issued(i, "PutObject")
  /\ \A i \in Invocations :
       Issued(i, "PutObject")
         => /\ Len(inv[i].resps) >= 3
            /\ inv[i].resps[2].ok
            /\ inv[i].resps[3].ok
            /\ inv[i].contentBuffer = inv[i].resps[3].val
            /\ inv[i].contentBuffer[1] = MagicHEIC
            /\ inv[i].workingBuffer[1] = MagicJPEG
            /\ inv[i].resizedBuffer[2] = 1000
            /\ PutCall(i).input.Body = inv[i].resizedBuffer
  /\ (\A i \in Invocations : ~Issued(i, "PutObject")) => store = orig
  /\ writes = <<>> => store = orig

\* every run has failed before the write, one of them in mid-stream
C4_Witness ==
  /\ \A i \in Invocations : inv[i].outcome = "raised" /\ inv[i].err \in PreWriteErrors
  /\ \E i \in Invocations : inv[i].err = "StreamError"
  /\ \E i \in Invocations : inv[i].err = "DecodeError"
  /\ store = orig

(***************************************************************************)
(* C5: when the lower-cased extension of the decoded key is not "heic"     *)
(* (no extension included), every invocation returns normally once         *)
(* HeadObject has answered, sends neither GetObject nor PutObject, and the *)
(* store stays the original store.                                         *)
(***************************************************************************)
KeyUnsupported ==
  TargetKey(event).ok /\ toLowerCase(extOf(TargetKey(event).val)) # <<"h","e","i","c">>

C5_UnsupportedIsNoOp ==
  KeyUnsupported =>
    /\ store = orig
    /\ \A i \in Invocations :
         /\ inv[i].outcome # "raised"
         /\ ~Issued(i, "GetObject")
         /\ ~Issued(i, "PutObject")
         /\ HeadAnswered(i) => inv[i].pc = "done" /\ inv[i].outcome = "returned"

\* a run on "diagram.png" whose object carries no flag has returned
C5_Witness ==
  /\ KeyUnsupported
  /\ extOf(TargetKey(event).val) = <<"p","n","g">>
  /\ \E i \in Invocations :
       /\ inv[i].pc = "done" /\ inv[i].outcome = "returned"
       /\ HeadResp(i).ok /\ DOMAIN HeadResp(i).val = {}


(***************************************************************************)
(* C6: a run on a key whose extension is "heic" up to case sends exactly   *)
(* one PutObject, with content type image/jpg and metadata exactly         *)
(* {image-processed: "true", processed-width: "1000", original-ext:        *)
(* "heic", output-format: "jpg"}; after a publish the stored object        *)
(* carries that content type and those four entries.                       *)
(***************************************************************************)
C6_PublishedObject ==
  /\ \A i \in Invocations :
       Issued(i, "PutObject")
         => /\ toLowerCase(extOf(inv[i].srcKey)) = <<"h","e","i","c">>
            /\ Cardinality({n \in 1..Len(inv[i].calls) : inv[i].calls[n].cmd = "PutObject"}) = 1
            /\ PutCall(i).input.ContentType = <<"i","m","a","g","e","/","j","p","g">>
            /\ PutCall(i).input.Metadata = PublishedMetadata
  /\ writes # <<>>
       => /\ store[Target].ContentType = <<"i","m","a","g","e","/","j","p","g">>
          /\ store[Target].Metadata = PublishedMetadata

\* the run on "photo+name.HEIC" has published
C6_Witness ==
  /\ event[1].key = <<"p","h","o","t","o","+","n","a","m","e",".","H","E","I","C">>
  /\ writes # <<>>
  /\ \E i \in Invocations : inv[i].pc = "done" /\ inv[i].ret.type = "string"

(***************************************************************************)
(* C7 as claimed: the published original-ext is the extension exactly as   *)
(* it appears in the decoded key, upper-case letters kept.                 *)
(***************************************************************************)
C7_OriginalExtKeepsCase ==
  \A i \in Invocations :
    Issued(i, "PutObject")
      => PutCall(i).input.Metadata["original-ext"] = extOf(inv[i].srcKey)

(***************************************************************************)
(* C7 as amended: the published original-ext is the lower-cased extension  *)
(* of the decoded key, the same value the classification used.             *)
(***************************************************************************)
C7_OriginalExtIsLowerCased ==
  \A i \in Invocations :
    Issued(i, "PutObject")
      => /\ PutCall(i).input.Metadata["original-ext"] = toLowerCase(extOf(inv[i].srcKey))
         /\ PutCall(i).input.Metadata["original-ext"] = inv[i].imageType
         /\ i \in Range(writes) =>
              store[Target].Metadata["original-ext"] = toLowerCase(extOf(inv[i].srcKey))

\* a publish for a key whose extension holds upper-case letters
C7_Witness ==
  \E i \in Invocations :
    /\ i \in Range(writes)
    /\ extOf(inv[i].srcKey) # toLowerCase(extOf(inv[i].srcKey))

(***************************************************************************)
(* C8: resolving the key never raises: an invocation on a key with         *)
(* malformed percent-encoding does not fail but ends as a normal           *)
(* unsupported-format return.  decodeURIComponent throws URIError on such  *)
(* a key, outside any try block.                                           *)
(***************************************************************************)
C8_KeyResolutionNeverRaises ==
  \A i \in Invocations :
    /\ inv[i].err # URIError
    /\ (inv[i].pc = "done" /\ ~TargetKey(event).ok) => inv[i].outcome = "returned"

(***************************************************************************)
(* C9: the ways an invocation ends                                         *)
(***************************************************************************)
\* returned at the gate: the fetched metadata carried the flag
Skipped(i) ==
  /\ inv[i].pc = "done" /\ HeadAnswered(i)
  /\ HeadResp(i).ok /\ processed(HeadResp(i).val)

\* returned at the classification
Unsupported(i) ==
  /\ inv[i].pc = "done" /\ HeadAnswered(i) /\ ~Skipped(i)
  /\ toLowerCase(extOf(inv[i].srcKey)) # <<"h","e","i","c">>

\* the write of invocation i was applied
Published(i) == i \in Range(writes)

\* a stage other than the metadata fetch failed
StageFailed(i) ==
  \/ \E n \in 2..Len(inv[i].resps) : ~inv[i].resps[n].ok
  \/ inv[i].err \in {URIError, "ConversionError", "DecodeError"}

LastWriter == writes[Len(writes)]

C10_LastWriteWins ==
  /\ [](writes # <<>> => holder = LastWriter /\ store[Target] = Stored(PutCall(holder)))
  /\ [][ \A j \in Invocations :
           ( /\ inv[j].pc = "head" /\ inv'[j].pc # "head"
             /\ inv'[j].resps[1].ok
             /\ \A i \in Invocations \ {j} : inv[i].pc \in {"idle", "done"}
             /\ writes # <<>> )
           => /\ inv'[j].pc = "done" /\ inv'[j].outcome = "returned"
              /\ ~(\E n \in 1..Len(inv'[j].calls) : inv'[j].calls[n].cmd # "HeadObject")
              /\ writes' = writes ]_vars

\* two runs both passed the gate on successful metadata reads and both wrote
C10_Witness ==
  /\ Len(writes) = 2
  /\ writes[1] # writes[2]
  /\ \A n \in 1..2 : /\ HeadResp(writes[n]).ok
                     /\ ~FlagPresent(HeadResp(writes[n]).val)
  /\ holder = writes[2]
  /\ store[Target] = Stored(PutCall(writes[2]))

(***************************************************************************)
(* C11: bodyToBuffer, for a source of any of the three supported shapes,   *)
(* returns on success the concatenation of every chunk in delivery order   *)
(* (the whole payload, never a proper prefix); a source that fails before  *)
(* it is exhausted makes it raise an error and return no buffer; a source  *)
(* of none of the three shapes, null included, makes it raise the          *)
(* unsupported-source-type error.                                          *)
(***************************************************************************)
SupportedShapes == {"readable", "webstream", "bytearray"}

C11_CollectorAllOrNothing ==
  (probe # NoProbe /\ probe.done) =>
    LET B == probe.Body
        r == probe.result
    IN  /\ (B.shape \in SupportedShapes /\ r.ok) => r.val = concat(B.chunks)
        /\ (B.shape \in SupportedShapes /\ B.failAt = 0) => r.ok
        /\ (B.shape \in SupportedShapes /\ B.failAt # 0) =>
              ~r.ok /\ r.err = "StreamError" /\ r.val = <<>>
        /\ B.shape \notin SupportedShapes =>
              ~r.ok /\ r.err = "UnsupportedSourceType" /\ r.val = <<>>

\* a stream of two non-empty chunks was collected whole
C11_Witness ==
  /\ probe # NoProbe
  /\ probe.done
  /\ probe.Body.shape = "webstream"
  /\ Len(probe.Body.chunks) = 2
  /\ \A n \in 1..2 : probe.Body.chunks[n] # <<>>
  /\ probe.result.ok
  /\ probe.result.val = probe.Body.chunks[1] \o probe.Body.chunks[2]

(***************************************************************************)
(* C12: for an event of n >= 1 records, every storage call of an           *)
(* invocation (HeadObject, GetObject, PutObject) names the bucket and the  *)
(* decoded key of the first record; the write goes where the read went;    *)
(* no other key is written or created; the objects the records 2..n name   *)
(* (other objects than the first record's) stay as they were.              *)
(***************************************************************************)
\* the object record n of the event names, when its key decodes
RecordObject(n) ==
  LET d == decodeURIComponent(replacePlus(event[n].key))
  IN  IF d.ok THEN {<<event[n].bucket, d.val>>} ELSE {}

\* object l is as it was before any invocation
Untouched(l) ==
  /\ l \in DOMAIN store <=> l \in DOMAIN orig
  /\ l \in DOMAIN store => store[l] = orig[l]

C12_OnlyFirstRecord ==
  /\ \A i \in Invocations : \A n \in 1..Len(inv[i].calls) :
        <<inv[i].calls[n].Bucket, inv[i].calls[n].Key>> \in RecordObject(1)
  /\ \A i \in Invocations :
        (Issued(i, "GetObject") /\ Issued(i, "PutObject")) =>
           LET get == inv[i].calls[2]
           IN  PutCall(i).Bucket = get.Bucket /\ PutCall(i).Key = get.Key
  /\ DOMAIN store = DOMAIN orig
  /\ \A l \in DOMAIN store : l \notin RecordObject(1) => Untouched(l)
  /\ \A n \in 2..Len(event) : \A l \in RecordObject(n) \ RecordObject(1) : Untouched(l)

\* an event of two records or more whose first object was published, the
\* object of the second record being in the bucket
C12_Witness ==
  /\ Len(event) >= 2
  /\ writes # <<>>
  /\ \E l \in RecordObject(2) : l \in DOMAIN store /\ l \notin RecordObject(1)
  /\ \E i \in Invocations : inv[i].outcome = "returned" /\ Issued(i, "PutObject")

(***************************************************************************)
(* C13: for every decoded key over letters, "." and "/", keys ending in    *)
(* "/" or ".", keys starting with "/" and keys with repeated slashes       *)
(* included, directory (followed by "/" when non-empty) + base name +      *)
(* ("." + extension when the extension is non-empty) is the decoded key.   *)
(* path.posix.parse drops trailing slashes and gives the directory "/" to  *)
(* a key whose only slash leads it, and the extension of a key ending in   *)
(* "." is empty once its dot is removed, so this fails for "a/", "a." and  *)
(* "/a".                                                                   *)
(***************************************************************************)
\* directory + base name + extension of the resolved key
Rejoined ==
  (IF probe.dir # <<>> THEN probe.dir \o S_slash ELSE <<>>)
    \o probe.baseNameNoExt
    \o (IF probe.ext # <<>> THEN <<".">> \o probe.ext ELSE <<>>)

C13_RoundTrip == (probe # NoProbe /\ probe.done) => Rejoined = probe.srcKey

\* the position of the last slash of k, 0 when it has none
LastSlash(k) ==
  IF \E n \in 1..Len(k) : k[n] = "/"
  THEN CHOOSE n \in 1..Len(k) : k[n] = "/" /\ \A m \in (n + 1)..Len(k) : k[m] # "/"
  ELSE 0

\* the final path segment of k: what follows its last slash
FinalSegment(k) == SubSeq(k, LastSlash(k) + 1, Len(k))

\* k does not end in a slash, its last slash is not its first character, and
\* it does not end in a dot unless its final segment is "." or ".."
PlainKey(k) ==
  /\ k[Len(k)] # "/"
  /\ LastSlash(k) # 1
  /\ k[Len(k)] = "." => FinalSegment(k) \in {<<".">>, <<".", ".">>}

(***************************************************************************)
(* C13, as the code has it: the parts re-join to the decoded key for every *)
(* key that does not end in "/", whose last slash is not its first         *)
(* character, and that does not end in "." (the segments "." and ".."      *)
(* apart); repeated slashes inside such a key are kept.                    *)
(***************************************************************************)
C13_RoundTripOfPlainKeys ==
  (probe # NoProbe /\ probe.done /\ PlainKey(probe.srcKey)) => Rejoined = probe.srcKey

\* a key with a directory and an extension was resolved and re-joins
C13_Witness ==
  /\ probe # NoProbe
  /\ probe.done
  /\ PlainKey(probe.srcKey)
  /\ probe.dir # <<>>
  /\ probe.ext # <<>>
  /\ Rejoined = probe.srcKey

(***************************************************************************)
(* C14: for every valid source image of width w and height h, w below,     *)
(* equal to or above the target width, the image a successful run          *)
(* publishes is exactly 1000 wide, and its height is h * 1000 / w up to    *)
(* integer rounding: the nearest integer, and in any case less than one    *)
(* pixel away (an image is at least one pixel high).                       *)
(***************************************************************************)
\* height hOut is h * 1000 / w rounded to the nearest integer
NearestHeight(hOut, w, h) ==
  /\ 2 * hOut * w - 2 * h * 1000 <= w
  /\ 2 * h * 1000 - 2 * hOut * w <= w

\* height hOut is less than one pixel away from h * 1000 / w
WithinOnePixel(hOut, w, h) ==
  /\ hOut * w - h * 1000 < w
  /\ h * 1000 - hOut * w < w

C14_PublishedSize ==
  writes # <<>> =>
    LET src == orig[Target].Body
        out == store[Target].Body
    IN  /\ Len(out) = 3
        /\ out[1] = MagicJPEG
        /\ out[2] = 1000
        /\ out[3] >= 1
        /\ WithinOnePixel(out[3], src[2], src[3])
        /\ 2 * src[3] * 1000 >= src[2] => NearestHeight(out[3], src[2], src[3])
        /\ \A i \in Invocations : Issued(i, "PutObject") => PutCall(i).input.Body = out

\* an image narrower than the target width was published enlarged, its
\* height not a whole multiple
C14_Witness ==
  /\ writes # <<>>
  /\ orig[Target].Body[2] < 1000
  /\ orig[Target].Body[2] > 1
  /\ store[Target].Body[2] = 1000
  /\ store[Target].Body[3] * orig[Target].Body[2] # orig[Target].Body[3] * 1000

(***************************************************************************)
(* C15: the storage calls of one invocation are a prefix of HeadObject,    *)
(* GetObject, PutObject, each sent at most once and only when the one      *)
(* before it has answered; GetObject is sent only when the gate has        *)
(* finished without skipping; PutObject is sent only when the conversion   *)
(* and the resize have finished; and a step in which the invocation fails  *)
(* sends no call, nor does any step after the invocation has ended.        *)
(***************************************************************************)
CallOrder == <<"HeadObject", "GetObject", "PutObject">>

\* the calls of s that S3 has answered (the third answer recorded is the
\* result of reading the Body stream)
Answered(s) == IF Len(s.resps) <= 2 THEN Len(s.resps) ELSE Len(s.resps) - 1

C15_CallsInOrder ==
  \A i \in Invocations :
    /\ Len(inv[i].calls) <= 3
    /\ \A n \in 1..Len(inv[i].calls) : inv[i].calls[n].cmd = CallOrder[n]
    /\ Answered(inv[i]) <= Len(inv[i].calls)
    /\ Len(inv[i].calls) <= Answered(inv[i]) + 1
    /\ Issued(i, "GetObject") =>
         /\ HeadAnswered(i)
         /\ HeadResp(i).ok => ~processed(HeadResp(i).val)
    /\ Issued(i, "PutObject") =>
         /\ Len(inv[i].resps) >= 3
         /\ inv[i].resps[2].ok
         /\ inv[i].resps[3].ok
         /\ heicConvert(inv[i].contentBuffer).ok
         /\ inv[i].workingBuffer = heicConvert(inv[i].contentBuffer).val
         /\ sharpResize(inv[i].workingBuffer, 1000).ok
         /\ PutCall(i).input.Body = sharpResize(inv[i].workingBuffer, 1000).val

C15_NoCallAfterTheEnd ==
  \A i \in Invocations :
    /\ inv[i].pc = "done" => inv'[i] = inv[i]
    /\ Len(inv'[i].calls) <= Len(inv[i].calls) + 1
    /\ SubSeq(inv'[i].calls, 1, Len(inv[i].calls)) = inv[i].calls
    /\ Len(inv'[i].calls) > Len(inv[i].calls) => Answered(inv'[i]) = Len(inv[i].calls)
    /\ inv'[i].outcome = "raised" => inv'[i].calls = inv[i].calls

C15_SequentialNoRetry == []C15_CallsInOrder /\ [][C15_NoCallAfterTheEnd]_vars

\* one invocation failed in the write after its three calls, another
\* failed in the object read after two
C15_Witness ==
  \E i, j \in Invocations :
    /\ inv[i].outcome = "raised" /\ inv[i].err = "PutObjectError"
    /\ Len(inv[i].calls) = 3
    /\ inv[j].outcome = "raised" /\ inv[j].err = "GetObjectError"
    /\ Len(inv[j].calls) = 2

(***************************************************************************)
(* C16: the extension is the text after the last dot of the final path     *)
(* segment of the decoded key ("+" read as a space, then percent-decoded); *)
(* a final segment whose only dot leads it has no extension.  An           *)
(* invocation the gate does not end sends GetObject exactly when that      *)
(* extension is "heic" up to case: "a.b.HEIC" and "dir/x.heic" are         *)
(* supported; ".heic", "dir/.heic", "a.heic/b", "a.heic.png" and "heic"    *)
(* are not.  The final path segment is taken as POSIX does: slashes that   *)
(* end the key are not part of it.                                         *)
(***************************************************************************)
\* k without the slashes that end it
RECURSIVE DropTrailingSlashes(_)
DropTrailingSlashes(k) ==
  IF k # <<>> /\ k[Len(k)] = "/" THEN DropTrailingSlashes(SubSeq(k, 1, Len(k) - 1)) ELSE k

\* the final path segment of k
PosixSegment(k) == FinalSegment(DropTrailingSlashes(k))

\* the position of the last dot of segment g, 0 when it has none
LastDot(g) ==
  IF \E n \in 1..Len(g) : g[n] = "."
  THEN CHOOSE n \in 1..Len(g) : g[n] = "." /\ \A m \in (n + 1)..Len(g) : g[m] # "."
  ELSE 0

\* the text after the last dot of g, when a name comes before that dot
TextAfterLastDot(g) ==
  IF LastDot(g) > 1 THEN SubSeq(g, LastDot(g) + 1, Len(g)) ELSE <<>>

\* the decoded key has the extension "heic" up to case
HeicKey(k) == toLowerCase(TextAfterLastDot(PosixSegment(k))) = <<"h","e","i","c">>

\* the gate ended invocation i: HeadObject answered with the flag the gate reads
GateSkipped(i) == HeadAnswered(i) /\ HeadResp(i).ok /\ processed(HeadResp(i).val)

\* the raw keys of the claim, as supported or not
NamedKeys ==
  (<<"a",".","b",".","H","E","I","C">> :> TRUE) @@
  (<<"d","i","r","/","x",".","h","e","i","c">> :> TRUE) @@
  (<<".","h","e","i","c">> :> FALSE) @@
  (<<"d","i","r","/",".","h","e","i","c">> :> FALSE) @@
  (<<"a",".","h","e","i","c","/","b">> :> FALSE) @@
  (<<"a",".","h","e","i","c",".","p","n","g">> :> FALSE) @@
  (<<"h","e","i","c">> :> FALSE)

C16_ReadExactlyForHeic ==
  \A i \in Invocations :
    /\ GateSkipped(i) => ~Issued(i, "GetObject")
    /\ (HeadAnswered(i) /\ ~GateSkipped(i)) =>
         /\ inv[i].srcKey = TargetKey(event).val
         /\ inv[i].imageType = toLowerCase(TextAfterLastDot(PosixSegment(inv[i].srcKey)))
         /\ Issued(i, "GetObject") <=> HeicKey(inv[i].srcKey)
         /\ event[1].key \in DOMAIN NamedKeys =>
              (Issued(i, "GetObject") <=> NamedKeys[event[1].key])

\* "a.b.HEIC", unflagged, has reached the object read
C16_Witness ==
  /\ event[1].key = <<"a",".","b",".","H","E","I","C">>
  /\ \E i \in Invocations :
       /\ HeadAnswered(i)
       /\ HeadResp(i).ok
       /\ ~FlagPresent(HeadResp(i).val)
       /\ Issued(i, "GetObject")

(***************************************************************************)
(* C17: however many invocations run on the key, however they interleave   *)
(* and wherever each fails (in the write included), the stored object is   *)
(* at every moment either the object as it was uploaded or an object one   *)
(* applied PutObject stored whole: the transformed payload together with   *)
(* the full processed metadata.  For an object uploaded without the flag,  *)
(* the flag is there exactly when the payload is a transformed one.        *)
(***************************************************************************)
\* the payload a publish of the uploaded object stores
TransformedPayload ==
  sharpResize(heicConvert(orig[Target].Body).val, 1000).val

C17_FlagAndPayloadTogether ==
  TargetKey(event).ok =>
    /\ \/ /\ store[Target] = orig[Target]
          /\ holder = 0
       \/ /\ holder \in Range(writes)
          /\ store[Target] = Stored(PutCall(holder))
          /\ heicConvert(orig[Target].Body).ok
          /\ store[Target].Body = TransformedPayload
          /\ store[Target].Body # orig[Target].Body
          /\ store[Target].Metadata = PublishedMetadata
    /\ ~FlagPresent(orig[Target].Metadata) =>
         (FlagPresent(store[Target].Metadata) <=> store[Target].Body # orig[Target].Body)
    /\ writes = <<>> <=> holder = 0

\* the write of one invocation failed and the write of another was applied:
\* the object, uploaded without the flag, holds the transformed payload and
\* the full metadata
C17_Witness ==
  /\ TargetKey(event).ok
  /\ ~FlagPresent(orig[Target].Metadata)
  /\ \E i \in Invocations : inv[i].outcome = "raised" /\ inv[i].err = "PutObjectError"
  /\ \E j \in Invocations : writes = <<j>>
  /\ store[Target].Body = TransformedPayload
  /\ store[Target].Metadata = PublishedMetadata

(***************************************************************************)
(* C18: a publish leaves the key as it is, so only the flag stops a second *)
(* processing.  When the object is already published (flagged) and the     *)
(* HeadObject of an invocation fails, the invocation does not skip: the    *)
(* key is classified as supported and GetObject is sent for it; the Body   *)
(* it answers with is the already-processed payload, and once collected    *)
(* that payload is what the conversion stage is given.                     *)
(***************************************************************************)
\* the object the event names is a published one
AlreadyPublished ==
  /\ TargetKey(event).ok
  /\ store[Target].Metadata = PublishedMetadata
  /\ isImage(store[Target].Body, MagicJPEG)

\* the last answer invocation state s has recorded
LastResp(s) == s.resps[Len(s.resps)]

C18_FailedFetchReprocesses ==
  [][ \A i \in Invocations :
        /\ ( /\ inv[i].pc = "head" /\ inv'[i].pc # "head"
             /\ ~LastResp(inv'[i]).ok
             /\ AlreadyPublished )
           => /\ inv'[i].pc = "get"
              /\ inv'[i].outcome = "pending"
              /\ inv'[i].imageType = <<"h","e","i","c">>
              /\ inv'[i].calls =
                   Append(inv[i].calls, GetObjectCommand(Target[1], Target[2]))
        /\ ( /\ inv[i].pc = "get" /\ inv'[i].pc = "collect"
             /\ AlreadyPublished )
           => inv'[i].Body = store[Target].Body
        /\ ( inv[i].pc = "collect" /\ inv'[i].pc # "collect" /\ LastResp(inv'[i]).ok )
           => /\ inv'[i].pc = "convert"
              /\ inv'[i].contentBuffer = inv[i].Body
        /\ ( inv[i].pc = "convert" /\ inv'[i].pc # "convert" )
           => IF heicConvert(inv[i].contentBuffer).ok
              THEN inv'[i].workingBuffer = heicConvert(inv[i].contentBuffer).val
              ELSE inv'[i].outcome = "raised" ]_vars

\* on an object published before, an invocation whose HeadObject failed has
\* collected the processed payload and stands before the conversion
C18_Witness ==
  /\ TargetKey(event).ok
  /\ orig[Target] = PublishedBefore
  /\ \E i \in Invocations :
       /\ HeadAnswered(i) /\ ~HeadResp(i).ok
       /\ inv[i].pc = "convert"
       /\ inv[i].contentBuffer = orig[Target].Body
       /\ isImage(inv[i].contentBuffer, MagicJPEG)

(***************************************************************************)
(* C19: given that heicConvert rejects every payload that is not a HEIC    *)
(* image, no PutObject carries a payload derived from a published payload: *)
(* an invocation that passed the gate and read the object after a publish  *)
(* holds the published payload, fails in the conversion with the error     *)
(* raised and sends no PutObject; so every payload stored by a publish is  *)
(* one conversion and one resize of the uploaded payload.                  *)
(***************************************************************************)
\* invocation i has collected a payload that a publish produced
ReadPublished(i) ==
  /\ inv[i].contentBuffer # <<>>
  /\ isImage(inv[i].contentBuffer, MagicJPEG)
  /\ inv[i].contentBuffer[2] = 1000

C19_NoDoubleTransform ==
  /\ \A i \in Invocations :
       ReadPublished(i) =>
         /\ ~Issued(i, "PutObject")
         /\ i \notin Range(writes)
         /\ inv[i].pc \in {"convert", "done"}
         /\ inv[i].pc = "done" =>
              /\ inv[i].outcome = "raised"
              /\ inv[i].err = "ConversionError"
  /\ \A i \in Invocations :
       Issued(i, "PutObject") =>
         /\ inv[i].contentBuffer = orig[Target].Body
         /\ isImage(inv[i].contentBuffer, MagicHEIC)
         /\ inv[i].workingBuffer = heicConvert(orig[Target].Body).val
         /\ PutCall(i).input.Body = sharpResize(inv[i].workingBuffer, 1000).val
  /\ \A n \in 1..Len(writes) :
       PutCall(writes[n]).input.Body =
         sharpResize(heicConvert(orig[Target].Body).val, 1000).val
  /\ holder # 0 =>
       store[Target].Body = sharpResize(heicConvert(orig[Target].Body).val, 1000).val

\* an invocation passed the gate on the unflagged metadata, read the object
\* after another invocation's publish, and failed in the conversion
C19_Witness ==
  \E i, j \in Invocations :
    /\ i # j
    /\ writes = <<j>>
    /\ HeadAnswered(i) /\ HeadResp(i).ok /\ ~FlagPresent(HeadResp(i).val)
    /\ ReadPublished(i)
    /\ inv[i].contentBuffer = store[Target].Body
    /\ inv[i].outcome = "raised" /\ inv[i].err = "ConversionError"
    /\ ~Issued(i, "PutObject")

====
